---- MODULE Spec2Model ----
(***************************************************************************)
(* Single-flight scheduler of web-txt2img: the worker host                 *)
(* (worker/host.ts) and the InlineScheduler (runtime/inline_scheduler).    *)
(* One handler of the source = one operator on the scheduler record; an    *)
(* action applies one handler to the scheduler under test.                  *)
(***************************************************************************)
EXTENDS Integers, Sequences, FiniteSets, TLC

\* ---------------------------------------------------------------- bounds
MaxJobs == 3
MaxNow == 8000
MaxLiveJobs == 2
MaxFullJobs == 2
MaxLoadCalls == 4
MaxClientAborts == 2

\* ------------------------------------------------------ program constants
ABORT_TIMEOUT_MS == 8000

\* ------------------------------------------------------------- vocabulary
Null == 0
NoPending == [id |-> Null, debounceUntil |-> {}]
Jobs == 1..MaxJobs
TimerIds == 1..(MaxJobs + 4)
Policies == {"reject", "abort_and_queue", "queue"}
WorkerState == {"idle", "running", "aborting", "queued"}
\* an optional value is {} (undefined) or {v}
DebounceInputs == {{}, {0 - ABORT_TIMEOUT_MS}, {ABORT_TIMEOUT_MS \div 2}, {ABORT_TIMEOUT_MS}}
PolicyInputs == {{}} \cup {{p} : p \in Policies}
ReplaceInputs == {{}, {TRUE}, {FALSE}}
\* the clock is observed at this granularity
TickSteps == {ABORT_TIMEOUT_MS \div 2}
\* results the executor can report; 'cancelled' needs an aborted signal
ExecOutcomes == {"ok", "cancelled", "internal_error"}

\* kind    which binding is under test: the worker host or the InlineScheduler
\* host    the worker host (module state of worker/host.ts)
\* inl     the InlineScheduler instance
\* now     Date.now()
\* nextId  the next fresh job id (uid())
\* req     the event handled by the last step: the handler, the job it is
\*         about, for a settlement the executor's result and, for a
\*         generate, the debounceMs it asked for
VARIABLES kind, host, inl, now, nextId, req

vars == <<kind, host, inl, now, nextId, req>>

\* x ?? d
OrElse(x, d) == IF x = {} THEN d ELSE CHOOSE v \in x : TRUE

Max(a, b) == IF a >= b THEN a ELSE b

Msg(t, i, val) == [type |-> t, id |-> i, v |-> val]

\* ------------------------------------------------------- scheduler record
\* currentJob    id of the current job, Null when none
\* pendingJob    NoPending or [id, debounceUntil]
\* aborting, abortTimer, debounceTimer   as in the source (timer handles)
\* timers        the timers of this scheduler that are armed
\* state         last state reported by setState
\* execs         jobs whose generateImage call has not settled
\* started       per job, number of generateImage calls
\* signaled      per job, number of controller.abort() calls
\* results       per job, the terminal results delivered to its submitter
\* out           what the last handler emitted, in order
\* inst          the last installation into the pending slot: the job, the
\*               time, and the debounceMs asked for (history, not read by
\*               any handler)
InitSched ==
  [ currentJob |-> Null, pendingJob |-> NoPending, aborting |-> FALSE,
    abortTimer |-> Null, debounceTimer |-> Null, timers |-> {},
    state |-> "idle",
    execs |-> {}, started |-> [j \in Jobs |-> 0],
    signaled |-> [j \in Jobs |-> 0],
    results |-> [j \in Jobs |-> <<>>],
    out |-> <<Msg("state", Null, "idle")>>,
    inst |-> [id |-> Null, at |-> 0, D |-> 0] ]

post(s, m) == [s EXCEPT !.out = Append(@, m)]

setState(s, st) == post([s EXCEPT !.state = st], Msg("state", Null, st))

\* a terminal result reaches the submitter of job j
deliver(s, j, reason) ==
  post([s EXCEPT !.results[j] = Append(@, reason)], Msg("result", j, reason))

FreshTimer(s) ==
  LET used == {t.id : t \in s.timers} \cup {s.abortTimer, s.debounceTimer}
  IN  CHOOSE i \in TimerIds : i \notin used /\ \A k \in TimerIds : k \notin used => i <= k

clearTimeout(s, h) == [s EXCEPT !.timers = {t \in @ : t.id # h}]

\* generateImage(...) is called for job j: the executor call is outstanding
callGenerateImage(s, j) ==
  post([s EXCEPT !.execs = @ \cup {j}, !.started[j] = @ + 1], Msg("exec", j, "start"))

\* controller.abort() of job j
controllerAbort(s, j) ==
  post([s EXCEPT !.signaled[j] = @ + 1], Msg("abort", j, "signal"))

\* ------------------------------------------------------------ worker host
HostRunJobStart(s, j) == callGenerateImage(setState(s, "running"), j)

\* startPending without its test of currentJob
HostStartPending_NoCurrentTest(s) ==
  IF s.pendingJob = NoPending THEN s
  ELSE LET toStart == s.pendingJob
           s1 == [s EXCEPT !.pendingJob = NoPending, !.currentJob = toStart.id]
       IN  callGenerateImage(setState(s1, "running"), toStart.id)

\* startPending without 'pendingJob = null'
HostStartPending_KeepsPending(s) ==
  IF s.pendingJob = NoPending \/ s.currentJob # Null THEN s
  ELSE LET toStart == s.pendingJob
           s1 == [s EXCEPT !.currentJob = toStart.id]
       IN  callGenerateImage(setState(s1, "running"), toStart.id)

HostStartPending(s) ==
  IF s.pendingJob = NoPending \/ s.currentJob # Null THEN s
  ELSE LET toStart == s.pendingJob
           s1 == [s EXCEPT !.pendingJob = NoPending, !.currentJob = toStart.id]
       IN  HostRunJobStart(s1, toStart.id)

\* maybeStartNext that starts the pending job without looking at debounceUntil
HostMaybeStartNext_NoDebounce(s) ==
  IF s.currentJob # Null THEN s
  ELSE IF s.pendingJob = NoPending THEN setState(s, "idle")
  ELSE HostStartPending(setState(s, "queued"))

\* maybeStartNext that reports nothing when there is no pending job
HostMaybeStartNext_NoIdle(s) ==
  IF s.currentJob # Null \/ s.pendingJob = NoPending THEN s
  ELSE LET s1 == setState(s, "queued")
           wait == Max(0, OrElse(s1.pendingJob.debounceUntil, 0) - now)
           s2 == IF s1.debounceTimer # Null
                 THEN [clearTimeout(s1, s1.debounceTimer) EXCEPT !.debounceTimer = Null]
                 ELSE s1
       IN  IF wait > 0
           THEN LET h == FreshTimer(s2)
                IN  [s2 EXCEPT !.debounceTimer = h,
                               !.timers = @ \cup {[id |-> h, kind |-> "debounce",
                                                   due |-> now + wait, sink |-> Null]}]
           ELSE HostStartPending(s2)

\* maybeStartNext that takes a debounce handle that is set for a timer still
\* to fire, and leaves the promotion to it
HostMaybeStartNext_TrustsHandle(s) ==
  IF s.currentJob # Null THEN s
  ELSE IF s.pendingJob = NoPending THEN setState(s, "idle")
  ELSE LET s1 == setState(s, "queued")
           wait == Max(0, OrElse(s1.pendingJob.debounceUntil, 0) - now)
       IN  IF s1.debounceTimer # Null THEN s1
           ELSE IF wait > 0
           THEN LET h == FreshTimer(s1)
                IN  [s1 EXCEPT !.debounceTimer = h,
                               !.timers = @ \cup {[id |-> h, kind |-> "debounce",
                                                   due |-> now + wait, sink |-> Null]}]
           ELSE HostStartPending(s1)

\* maybeStartNext that reports 'idle' while the pending job waits out its
\* debounce
HostMaybeStartNext_IdleWhileWaiting(s) ==
  IF s.currentJob # Null THEN s
  ELSE IF s.pendingJob = NoPending THEN setState(s, "idle")
  ELSE LET wait == Max(0, OrElse(s.pendingJob.debounceUntil, 0) - now)
           s1 == setState(s, IF wait > 0 THEN "idle" ELSE "queued")
           s2 == IF s1.debounceTimer # Null
                 THEN [clearTimeout(s1, s1.debounceTimer) EXCEPT !.debounceTimer = Null]
                 ELSE s1
       IN  IF wait > 0
           THEN LET h == FreshTimer(s2)
                IN  [s2 EXCEPT !.debounceTimer = h,
                               !.timers = @ \cup {[id |-> h, kind |-> "debounce",
                                                   due |-> now + wait, sink |-> Null]}]
           ELSE HostStartPending(s2)

HostMaybeStartNext(s) ==
  IF s.currentJob # Null THEN s
  ELSE IF s.pendingJob = NoPending THEN setState(s, "idle")
  ELSE LET s1 == setState(s, "queued")
           wait == Max(0, OrElse(s1.pendingJob.debounceUntil, 0) - now)
           s2 == IF s1.debounceTimer # Null
                 THEN [clearTimeout(s1, s1.debounceTimer) EXCEPT !.debounceTimer = Null]
                 ELSE s1
       IN  IF wait > 0
           THEN LET h == FreshTimer(s2)
                IN  [s2 EXCEPT !.debounceTimer = h,
                               !.timers = @ \cup {[id |-> h, kind |-> "debounce",
                                                   due |-> now + wait, sink |-> Null]}]
           ELSE HostStartPending(s2)

\* runJob that does not go on to the pending job after a cancelled result
HostRunJobDone_NoPromoteOnCancel(s, j, res) ==
  LET s0 == [s EXCEPT !.execs = @ \ {j}]
  IN  IF s0.currentJob = Null \/ s0.currentJob # j THEN s0
      ELSE LET s1 == [s0 EXCEPT !.currentJob = Null]
               s2 == IF s1.aborting
                     THEN LET a == [s1 EXCEPT !.aborting = FALSE]
                          IN  IF a.abortTimer # Null
                              THEN [clearTimeout(a, a.abortTimer) EXCEPT !.abortTimer = Null]
                              ELSE a
                     ELSE s1
               s3 == deliver(s2, j, res)
           IN  IF res = "cancelled" THEN s3 ELSE HostMaybeStartNext(s3)

\* runJob that leaves the abort guard armed when the aborted job settles
HostRunJobDone_KeepsGuard(s, j, res) ==
  LET s0 == [s EXCEPT !.execs = @ \ {j}]
  IN  IF s0.currentJob = Null \/ s0.currentJob # j THEN s0
      ELSE LET s1 == [s0 EXCEPT !.currentJob = Null, !.aborting = FALSE]
               s3 == deliver(s1, j, res)
           IN  HostMaybeStartNext(s3)

\* runJob that calls the executor again for a job whose call failed
HostRunJobDone_Retries(s, j, res) ==
  LET s0 == [s EXCEPT !.execs = @ \ {j}]
  IN  IF s0.currentJob = Null \/ s0.currentJob # j THEN s0
      ELSE IF res = "internal_error" /\ s0.started[j] < 2
      THEN callGenerateImage(s0, j)
      ELSE LET s1 == [s0 EXCEPT !.currentJob = Null]
               s2 == IF s1.aborting
                     THEN LET a == [s1 EXCEPT !.aborting = FALSE]
                          IN  IF a.abortTimer # Null
                              THEN [clearTimeout(a, a.abortTimer) EXCEPT !.abortTimer = Null]
                              ELSE a
                     ELSE s1
               s3 == deliver(s2, j, res)
           IN  HostMaybeStartNext(s3)

\* runJob that leaves the aborting flag and the guard as they are
HostRunJobDone_KeepsAborting(s, j, res) ==
  LET s0 == [s EXCEPT !.execs = @ \ {j}]
  IN  IF s0.currentJob = Null \/ s0.currentJob # j THEN s0
      ELSE LET s1 == [s0 EXCEPT !.currentJob = Null]
               s3 == deliver(s1, j, res)
           IN  HostMaybeStartNext(s3)

\* runJob after the await: the executor settled job j with result res
HostRunJobDone(s, j, res) ==
  LET s0 == [s EXCEPT !.execs = @ \ {j}]
  IN  IF s0.currentJob = Null \/ s0.currentJob # j THEN s0
      ELSE LET s1 == [s0 EXCEPT !.currentJob = Null]
               s2 == IF s1.aborting
                     THEN LET a == [s1 EXCEPT !.aborting = FALSE]
                          IN  IF a.abortTimer # Null
                              THEN [clearTimeout(a, a.abortTimer) EXCEPT !.abortTimer = Null]
                              ELSE a
                     ELSE s1
               s3 == deliver(s2, j, res)
           IN  HostMaybeStartNext(s3)

\* supersedePending that replaces the occupant without notifying it
HostSupersedePending_Silent(s, newJob) ==
  setState([s EXCEPT !.pendingJob = newJob], "queued")

\* supersedePending that sends 'superseded' to the id of the new job
HostSupersedePending_WrongId(s, newJob) ==
  LET s1 == IF s.pendingJob # NoPending
            THEN deliver(s, newJob.id, "superseded")
            ELSE s
  IN  setState([s1 EXCEPT !.pendingJob = newJob], "queued")

\* supersedePending that leaves the occupant's deadline on the new job
HostSupersedePending_KeepsDeadline(s, newJob) ==
  LET s1 == IF s.pendingJob # NoPending
            THEN deliver(s, s.pendingJob.id, "superseded")
            ELSE s
      nj == IF s.pendingJob # NoPending
            THEN [newJob EXCEPT !.debounceUntil = s.pendingJob.debounceUntil]
            ELSE newJob
  IN  setState([s1 EXCEPT !.pendingJob = nj], "queued")

HostSupersedePending(s, newJob) ==
  LET s1 == IF s.pendingJob # NoPending
            THEN deliver(s, s.pendingJob.id, "superseded")
            ELSE s
  IN  setState([s1 EXCEPT !.pendingJob = newJob], "queued")

HostHandleAbortTimeout(s) ==
  LET h == FreshTimer(s)
  IN  [s EXCEPT !.abortTimer = h,
                !.timers = @ \cup {[id |-> h, kind |-> "abort",
                                    due |-> now + ABORT_TIMEOUT_MS, sink |-> Null]}]

\* a guard callback that gives up on the current job and goes on to the
\* pending one
HostAbortTimerFired_Terminates(s, t) ==
  LET s0 == [s EXCEPT !.timers = @ \ {t}]
      s1 == IF s0.currentJob # Null
            THEN post(s0, Msg("progress", s0.currentJob, "aborting_timeout"))
            ELSE s0
  IN  HostMaybeStartNext([s1 EXCEPT !.aborting = FALSE, !.currentJob = Null])

\* the callback of the abort guard timer t
HostAbortTimerFired(s, t) ==
  LET s0 == [s EXCEPT !.timers = @ \ {t}]
      s1 == IF s0.currentJob # Null
            THEN post(s0, Msg("progress", s0.currentJob, "aborting_timeout"))
            ELSE s0
  IN  [s1 EXCEPT !.aborting = FALSE]

\* the debounce timer fires and its callback does not call startPending
HostDebounceTimerFired_Lost(s, t) == [s EXCEPT !.timers = @ \ {t}]

\* the callback of the debounce timer t
HostDebounceTimerFired(s, t) == HostStartPending([s EXCEPT !.timers = @ \ {t}])

\* the abort of the current job without its test of the aborting flag
HostAbortCurrent_NoAbortingTest(s) ==
  IF s.currentJob # Null
  THEN LET s1 == setState([s EXCEPT !.aborting = TRUE], "aborting")
           s2 == controllerAbort(s1, s1.currentJob)
           s3 == IF s2.abortTimer # Null
                 THEN [clearTimeout(s2, s2.abortTimer) EXCEPT !.abortTimer = Null]
                 ELSE s2
       IN  HostHandleAbortTimeout(s3)
  ELSE s

\* the abort of the current job shared by 'abort' and 'abort_and_queue'
HostAbortCurrent(s) ==
  IF ~s.aborting /\ s.currentJob # Null
  THEN LET s1 == setState([s EXCEPT !.aborting = TRUE], "aborting")
           s2 == controllerAbort(s1, s1.currentJob)
           s3 == IF s2.abortTimer # Null
                 THEN [clearTimeout(s2, s2.abortTimer) EXCEPT !.abortTimer = Null]
                 ELSE s2
       IN  HostHandleAbortTimeout(s3)
  ELSE s

\* onMessage, case 'generate', idle path
HostStartNow(s, id) == HostRunJobStart([s EXCEPT !.currentJob = id], id)

\* onMessage, case 'generate', policy 'reject'
HostReject(s, id) == deliver(s, id, "busy")

\* onMessage, case 'generate', policy 'abort_and_queue'
HostAbortAndQueue(s, id, replaceQueued, debounceMs) ==
  LET pj == [id |-> id, debounceUntil |-> {}]
  IN  IF ~replaceQueued /\ s.pendingJob # NoPending
      THEN deliver(s, id, "busy")
      ELSE LET s1 == IF replaceQueued THEN HostSupersedePending(s, pj)
                     ELSE [s EXCEPT !.pendingJob = pj]
               s2 == IF debounceMs > 0 /\ s1.pendingJob # NoPending
                     THEN [s1 EXCEPT !.pendingJob.debounceUntil = {now + debounceMs}]
                     ELSE s1
               s3 == HostAbortCurrent(s2)
           IN  post(s3, Msg("accepted", id, "generate"))

\* policy 'queue' that replaces the occupant whatever replaceQueued says
HostQueue_IgnoresReplaceQueued(s, id, replaceQueued, debounceMs) ==
  LET pj == [id |-> id,
             debounceUntil |-> IF debounceMs # 0 THEN {now + debounceMs} ELSE {}]
      s1 == IF s.pendingJob # NoPending
            THEN post(HostSupersedePending(s, pj), Msg("accepted", id, "generate"))
            ELSE post([s EXCEPT !.pendingJob = pj], Msg("accepted", id, "generate"))
  IN  setState(s1, "queued")

\* onMessage, case 'generate', policy 'queue'
HostQueue(s, id, replaceQueued, debounceMs) ==
  LET pj == [id |-> id,
             debounceUntil |-> IF debounceMs # 0 THEN {now + debounceMs} ELSE {}]
      s1 == IF s.pendingJob # NoPending
            THEN IF replaceQueued
                 THEN post(HostSupersedePending(s, pj), Msg("accepted", id, "generate"))
                 ELSE deliver(s, id, "busy")
            ELSE post([s EXCEPT !.pendingJob = pj], Msg("accepted", id, "generate"))
  IN  setState(s1, "queued")

\* the 'reject' branch without its break: it falls through to the queue path
HostGenerate_RejectNoBreak(s, id, busyPolicy, replaceQueuedIn, debounceIn) ==
  LET policy == OrElse(busyPolicy, "queue")
      replaceQueued == OrElse(replaceQueuedIn, TRUE)
      debounceMs == Max(0, OrElse(debounceIn, 0))
  IN  IF s.currentJob = Null THEN HostStartNow(s, id)
      ELSE IF policy = "reject"
      THEN HostQueue(HostReject(s, id), id, replaceQueued, debounceMs)
      ELSE IF policy = "abort_and_queue"
      THEN HostAbortAndQueue(s, id, replaceQueued, debounceMs)
      ELSE HostQueue(s, id, replaceQueued, debounceMs)

\* 'generate' whose idle path waits out debounceMs before it starts the job
HostGenerate_DebouncedStart(s, id, busyPolicy, replaceQueuedIn, debounceIn) ==
  LET policy == OrElse(busyPolicy, "queue")
      replaceQueued == OrElse(replaceQueuedIn, TRUE)
      debounceMs == Max(0, OrElse(debounceIn, 0))
  IN  IF s.currentJob = Null
      THEN IF debounceMs > 0 /\ s.pendingJob = NoPending
           THEN HostMaybeStartNext(
                  [s EXCEPT !.pendingJob = [id |-> id, debounceUntil |-> {now + debounceMs}]])
           ELSE HostStartNow(s, id)
      ELSE IF policy = "reject" THEN HostReject(s, id)
      ELSE IF policy = "abort_and_queue"
      THEN HostAbortAndQueue(s, id, replaceQueued, debounceMs)
      ELSE HostQueue(s, id, replaceQueued, debounceMs)

\* onMessage, case 'generate'
HostGenerate(s, id, busyPolicy, replaceQueuedIn, debounceIn) ==
  LET policy == OrElse(busyPolicy, "queue")
      replaceQueued == OrElse(replaceQueuedIn, TRUE)
      debounceMs == Max(0, OrElse(debounceIn, 0))
  IN  IF s.currentJob = Null THEN HostStartNow(s, id)
      ELSE IF policy = "reject" THEN HostReject(s, id)
      ELSE IF policy = "abort_and_queue"
      THEN HostAbortAndQueue(s, id, replaceQueued, debounceMs)
      ELSE HostQueue(s, id, replaceQueued, debounceMs)

\* 'abort' that drops the pending job when no job is current
HostAbort_DropsPending(s) ==
  IF s.currentJob # Null
  THEN post(HostAbortCurrent(s), Msg("accepted", Null, "abort"))
  ELSE post([s EXCEPT !.pendingJob = NoPending], Msg("result", Null, "ok"))

\* 'abort' that cancels the job waiting in the pending slot when there is one
HostAbort_CancelsPending(s) ==
  IF s.pendingJob # NoPending
  THEN post(deliver([s EXCEPT !.pendingJob = NoPending], s.pendingJob.id, "cancelled"),
            Msg("accepted", Null, "abort"))
  ELSE IF s.currentJob # Null
  THEN post(HostAbortCurrent(s), Msg("accepted", Null, "abort"))
  ELSE post(s, Msg("result", Null, "ok"))

\* onMessage, case 'abort'
HostAbort(s) ==
  IF s.currentJob # Null
  THEN post(HostAbortCurrent(s), Msg("accepted", Null, "abort"))
  ELSE post(s, Msg("result", Null, "ok"))

\* a JavaScript value by its typeof; a number carries its value
Undefined == [t |-> "undefined", n |-> 0]

NotANumber == [t |-> "string", n |-> 0]

Num(n) == [t |-> "number", n |-> n]

\* Math.round(progress * 100) for a progress given in thousandths: the
\* nearest integer, a half rounded up
MathRound100(k) == (k + 5) \div 10

\* normPct that looks at progress before pct
normPct_ProgressFirst(e) ==
  IF e.progress.t = "number" THEN Num(MathRound100(e.progress.n))
  ELSE IF e.pct.t = "number" THEN e.pct
  ELSE Undefined

\* an event is [pct, progress, phase]: pct in percent, progress in
\* thousandths, phase standing for every other field of the event
normPct(e) ==
  IF e.pct.t = "number" THEN e.pct
  ELSE IF e.progress.t = "number" THEN Num(MathRound100(e.progress.n))
  ELSE Undefined

\* the event posted by runJob's onProgress: { ...event, pct: normPct(event) }
HostRelayedEvent(event) == [event EXCEPT !.pct = normPct(event)]

\* runJob's onProgress: an event of the executor call of job j is posted with
\* the id of j
HostOnProgress(s, j) == post(s, Msg("progress", j, "event"))

\* generateImage rejected: runJob ends at its await and its rejection is
\* handled by nobody
HostRunJobRejected(s, j) == [s EXCEPT !.execs = @ \ {j}]

\* -------------------------------------------------------- InlineScheduler
Models == {"sd-turbo", "janus-pro-1b"}
ModelInputs == {{}} \cup {{m} : m \in Models}

InlineRunJobStart(s, j) == callGenerateImage(setState(s, "running"), j)

InlineStartPending(s) ==
  IF s.pendingJob = NoPending \/ s.currentJob # Null THEN s
  ELSE LET toStart == s.pendingJob
           s1 == [s EXCEPT !.pendingJob = NoPending]
           s2 == InlineRunJobStart(s1, toStart.id)
       IN  [s2 EXCEPT !.currentJob = toStart.id]

InlineMaybeStartNext(s) ==
  IF s.currentJob # Null THEN s
  ELSE IF s.pendingJob = NoPending THEN setState(s, "idle")
  ELSE LET s1 == setState(s, "queued")
           wait == Max(0, OrElse(s1.pendingJob.debounceUntil, 0) - now)
           s2 == IF s1.debounceTimer # Null
                 THEN [clearTimeout(s1, s1.debounceTimer) EXCEPT !.debounceTimer = Null]
                 ELSE s1
       IN  IF wait > 0
           THEN LET h == FreshTimer(s2)
                IN  [s2 EXCEPT !.debounceTimer = h,
                               !.timers = @ \cup {[id |-> h, kind |-> "debounce",
                                                   due |-> now + wait, sink |-> Null]}]
           ELSE InlineStartPending(s2)

\* runJob after the await, followed by the .then that settles the promise
InlineRunJobDone(s, j, res) ==
  LET s0 == [s EXCEPT !.execs = @ \ {j}]
  IN  IF s0.currentJob = Null \/ s0.currentJob # j
      THEN deliver(s0, j, "cancelled")
      ELSE LET s1 == [s0 EXCEPT !.currentJob = Null]
               s2 == IF s1.aborting
                     THEN LET a == [s1 EXCEPT !.aborting = FALSE]
                          IN  IF a.abortTimer # Null
                              THEN [clearTimeout(a, a.abortTimer) EXCEPT !.abortTimer = Null]
                              ELSE a
                     ELSE s1
               s3 == InlineMaybeStartNext(s2)
           IN  deliver(s3, j, res)

InlineSupersedePending(s, newJob) ==
  LET s1 == IF s.pendingJob # NoPending
            THEN deliver(s, s.pendingJob.id, "cancelled")
            ELSE s
  IN  setState([s1 EXCEPT !.pendingJob = newJob], "queued")

\* onProgress is the progress sink handed in by the caller (Null: none)
InlineHandleAbortTimeout(s, onProgress) ==
  LET h == FreshTimer(s)
  IN  [s EXCEPT !.abortTimer = h,
                !.timers = @ \cup {[id |-> h, kind |-> "abort",
                                    due |-> now + ABORT_TIMEOUT_MS, sink |-> onProgress]}]

InlineAbortTimerFired(s, t) ==
  LET s0 == [s EXCEPT !.timers = @ \ {t}]
      s1 == IF s0.currentJob # Null /\ t.sink # Null
            THEN post(s0, Msg("progress", t.sink, "aborting_timeout"))
            ELSE s0
  IN  [s1 EXCEPT !.aborting = FALSE]

InlineDebounceTimerFired(s, t) == InlineStartPending([s EXCEPT !.timers = @ \ {t}])

InlineAbortCurrent(s, onProgress) ==
  IF ~s.aborting /\ s.currentJob # Null
  THEN LET s1 == setState([s EXCEPT !.aborting = TRUE], "aborting")
           s2 == controllerAbort(s1, s1.currentJob)
           s3 == IF s2.abortTimer # Null
                 THEN [clearTimeout(s2, s2.abortTimer) EXCEPT !.abortTimer = Null]
                 ELSE s2
       IN  InlineHandleAbortTimeout(s3, onProgress)
  ELSE s

\* enqueueGenerate that looks at the model only when a job is current
InlineEnqueueGenerate_IdleSkipsModel(s, id, model, busyPolicy, replaceQueuedIn, debounceIn) ==
  LET resolvedModel == IF model = {} THEN s.loadedModel ELSE model
  IN  IF s.currentJob = Null
      THEN [InlineRunJobStart(s, id) EXCEPT !.currentJob = id]
      ELSE IF resolvedModel = {} \/ s.loadedModel = {} \/ s.loadedModel # resolvedModel
      THEN post(s, Msg("result", Null, "model_not_loaded"))
      ELSE deliver(s, id, "internal_error")

\* enqueueGenerate; id is the id the call draws once the model checks pass
InlineEnqueueGenerate(s, id, model, busyPolicy, replaceQueuedIn, debounceIn) ==
  LET policy == OrElse(busyPolicy, "queue")
      replaceQueued == OrElse(replaceQueuedIn, TRUE)
      debounceMs == Max(0, OrElse(debounceIn, 0))
      resolvedModel == IF model = {} THEN s.loadedModel ELSE model
      pendingJob == [id |-> id,
                     debounceUntil |-> IF debounceMs > 0 THEN {now + debounceMs} ELSE {}]
  IN  IF resolvedModel = {} \/ s.loadedModel = {} \/ s.loadedModel # resolvedModel
      THEN post(s, Msg("result", Null, "model_not_loaded"))
      ELSE IF s.currentJob = Null
      THEN [InlineRunJobStart(s, id) EXCEPT !.currentJob = id]
      ELSE IF policy = "reject"
      THEN deliver(s, id, "internal_error")
      ELSE IF policy = "abort_and_queue"
      THEN IF ~replaceQueued /\ s.pendingJob # NoPending
           THEN deliver(s, id, "internal_error")
           ELSE LET s1 == IF replaceQueued THEN InlineSupersedePending(s, pendingJob)
                          ELSE [s EXCEPT !.pendingJob = pendingJob]
                IN  InlineAbortCurrent(s1, id)
      ELSE LET s1 == IF s.pendingJob # NoPending
                     THEN IF replaceQueued
                          THEN InlineSupersedePending(s, pendingJob)
                          ELSE deliver(s, id, "internal_error")
                     ELSE [s EXCEPT !.pendingJob = pendingJob]
           IN  setState(s1, "queued")

InlineAbort(s) == InlineAbortCurrent(s, Null)

\* enqueueGenerate, idle path, with a state-change listener that submits
\* again when it is told 'running': runJob calls setState, and with it the
\* listener, before it calls generateImage, and the idle path assigns
\* currentJob after runJob has returned its promise
InlineEnqueueGenerateReentrant(s, id, inner, busyPolicy) ==
  LET s1 == setState(s, "running")
      s2 == InlineEnqueueGenerate(s1, inner, {}, busyPolicy, {}, {})
      s3 == callGenerateImage(s2, id)
  IN  [s3 EXCEPT !.currentJob = id]

\* InlineScheduler.normPct
InlineNormPct(e) ==
  IF e.pct.t = "number" THEN e.pct
  ELSE IF e.progress.t = "number" THEN Num(MathRound100(e.progress.n))
  ELSE Undefined

\* the event handed on by runJob's onProgress
InlineRelayedEvent(event) == [event EXCEPT !.pct = InlineNormPct(event)]

\* runJob's onProgress: an event of the executor call of job j is handed to
\* the onProgress that came with j
InlineOnProgress(s, j) == post(s, Msg("progress", j, "event"))

\* generateImage rejected: runJob's promise rejects and the rejection handler
\* attached to it rejects the promise of the submitter
InlineRunJobRejected(s, j) == deliver([s EXCEPT !.execs = @ \ {j}], j, "rejected")

\* cleanup that empties the pending slot without resolving its job and
\* leaves the debounce timer armed
InlineCleanup_DropsPending(s) ==
  LET s1 == IF s.currentJob # Null
            THEN [controllerAbort(s, s.currentJob) EXCEPT !.currentJob = Null]
            ELSE s
      s2 == [s1 EXCEPT !.pendingJob = NoPending]
      s3 == IF s2.abortTimer # Null
            THEN [clearTimeout(s2, s2.abortTimer) EXCEPT !.abortTimer = Null]
            ELSE s2
  IN  setState([s3 EXCEPT !.aborting = FALSE], "idle")

InlineCleanup(s) ==
  LET s1 == IF s.currentJob # Null
            THEN [controllerAbort(s, s.currentJob) EXCEPT !.currentJob = Null]
            ELSE s
      s2 == IF s1.pendingJob # NoPending
            THEN [deliver(s1, s1.pendingJob.id, "cancelled") EXCEPT !.pendingJob = NoPending]
            ELSE s1
      s3 == IF s2.abortTimer # Null
            THEN [clearTimeout(s2, s2.abortTimer) EXCEPT !.abortTimer = Null]
            ELSE s2
      s4 == IF s3.debounceTimer # Null
            THEN [clearTimeout(s3, s3.debounceTimer) EXCEPT !.debounceTimer = Null]
            ELSE s3
  IN  setState([s4 EXCEPT !.aborting = FALSE], "idle")

InlineSetLoadedModel(s, model) == [s EXCEPT !.loadedModel = model]

\* ------------------------------------------------------------------ steps
Begin(s) == [s EXCEPT !.out = <<>>]

NoInst == [id |-> Null, at |-> 0, D |-> 0]

\* history kept by every step: inst describes the job in the pending slot
\* and is kept for the one step in which that job leaves the slot
Track(old, new) ==
  IF new.pendingJob.id = old.inst.id \/ old.pendingJob.id = old.inst.id
  THEN new
  ELSE [new EXCEPT !.inst = NoInst]

\* history: the handler left job id in the pending slot
Installed(old, new, id, debounceIn) ==
  IF new.pendingJob.id = id
  THEN [new EXCEPT !.inst = [id |-> id, at |-> now, D |-> Max(0, OrElse(debounceIn, 0))]]
  ELSE Track(old, new)

Ev(op, id, res) == [op |-> op, id |-> id, res |-> res, D |-> 0]

InitInline == [f \in DOMAIN InitSched \cup {"loadedModel"} |->
                 IF f = "loadedModel" THEN {} ELSE InitSched[f]]

Init ==
  /\ kind \in {"host", "inline"}
  /\ host = InitSched
  /\ inl = [InitInline EXCEPT !.out = <<>>]
  /\ now = 0
  /\ nextId = 1
  /\ req = Ev("init", Null, "")

CanSubmit(debounceIn) ==
  /\ nextId <= MaxJobs
  /\ now + Max(0, OrElse(debounceIn, 0)) <= MaxNow

\* a 'generate' request with the options p, r, d reaches the worker host
HostGenerateWith(p, r, d) ==
  /\ kind = "host"
  /\ CanSubmit(d)
  /\ host' = Installed(host, HostGenerate(Begin(host), nextId, p, r, d), nextId, d)
  /\ req' = [Ev("generate", nextId, "") EXCEPT !.D = Max(0, OrElse(d, 0))]
  /\ nextId' = nextId + 1
  /\ UNCHANGED <<kind, inl, now>>

HostGenerateStep ==
  \E p \in PolicyInputs, r \in ReplaceInputs, d \in DebounceInputs : HostGenerateWith(p, r, d)

HostAbortStep ==
  /\ kind = "host"
  /\ host' = Track(host, HostAbort(Begin(host)))
  /\ req' = Ev("abort", Null, "")
  /\ UNCHANGED <<kind, inl, now, nextId>>

HostExecutorSettles ==
  /\ kind = "host"
  /\ \E j \in host.execs, res \in ExecOutcomes :
       /\ res = "cancelled" => host.signaled[j] > 0
       /\ host' = Track(host, HostRunJobDone(Begin(host), j, res))
       /\ req' = Ev("settle", j, res)
  /\ UNCHANGED <<kind, inl, now, nextId>>

HostAbortTimerFires ==
  /\ kind = "host"
  /\ \E t \in host.timers :
       /\ t.kind = "abort" /\ now >= t.due
       /\ host' = Track(host, HostAbortTimerFired(Begin(host), t))
  /\ req' = Ev("abortTimer", Null, "")
  /\ UNCHANGED <<kind, inl, now, nextId>>

HostDebounceTimerFires ==
  /\ kind = "host"
  /\ \E t \in host.timers :
       /\ t.kind = "debounce" /\ now >= t.due
       /\ host' = Track(host, HostDebounceTimerFired(Begin(host), t))
  /\ req' = Ev("debounceTimer", Null, "")
  /\ UNCHANGED <<kind, inl, now, nextId>>

\* enqueueGenerate is called with params.model m and the options p, r, d
InlineGenerateWith(m, p, r, d) ==
  /\ kind = "inline"
  /\ CanSubmit(d)
  /\ inl' = Installed(inl, InlineEnqueueGenerate(Begin(inl), nextId, m, p, r, d), nextId, d)
  /\ LET refused == inl'.out = <<Msg("result", Null, "model_not_loaded")>>
     IN  /\ nextId' = IF refused THEN nextId ELSE nextId + 1
         /\ req' = IF refused THEN Ev("generate", Null, "")
                   ELSE [Ev("generate", nextId, "") EXCEPT !.D = Max(0, OrElse(d, 0))]
  /\ UNCHANGED <<kind, host, now>>

InlineGenerateStep ==
  \E m \in ModelInputs, p \in PolicyInputs, r \in ReplaceInputs, d \in DebounceInputs :
     InlineGenerateWith(m, p, r, d)

InlineAbortStep ==
  /\ kind = "inline"
  /\ inl' = Track(inl, InlineAbort(Begin(inl)))
  /\ req' = Ev("abort", Null, "")
  /\ UNCHANGED <<kind, host, now, nextId>>

\* Txt2ImgClient.load: a load that reported ok records the model; load is
\* refused while a model is recorded
InlineLoadStep ==
  /\ kind = "inline"
  /\ inl.loadedModel = {}
  /\ \E m \in Models : inl' = Track(inl, InlineSetLoadedModel(Begin(inl), {m}))
  /\ req' = Ev("load", Null, "")
  /\ UNCHANGED <<kind, host, now, nextId>>

InlineExecutorSettles ==
  /\ kind = "inline"
  /\ \E j \in inl.execs, res \in ExecOutcomes :
       /\ res = "cancelled" => inl.signaled[j] > 0
       /\ inl' = Track(inl, InlineRunJobDone(Begin(inl), j, res))
       /\ req' = Ev("settle", j, res)
  /\ UNCHANGED <<kind, host, now, nextId>>

InlineAbortTimerFires ==
  /\ kind = "inline"
  /\ \E t \in inl.timers :
       /\ t.kind = "abort" /\ now >= t.due
       /\ inl' = Track(inl, InlineAbortTimerFired(Begin(inl), t))
  /\ req' = Ev("abortTimer", Null, "")
  /\ UNCHANGED <<kind, host, now, nextId>>

InlineDebounceTimerFires ==
  /\ kind = "inline"
  /\ \E t \in inl.timers :
       /\ t.kind = "debounce" /\ now >= t.due
       /\ inl' = Track(inl, InlineDebounceTimerFired(Begin(inl), t))
  /\ req' = Ev("debounceTimer", Null, "")
  /\ UNCHANGED <<kind, host, now, nextId>>

Tick ==
  /\ \E d \in TickSteps : now + d <= MaxNow /\ now' = now + d
  /\ req' = Ev("tick", Null, "")
  /\ UNCHANGED <<kind, host, inl, nextId>>

Next ==
  \/ HostGenerateStep
  \/ HostAbortStep
  \/ HostExecutorSettles
  \/ HostAbortTimerFires
  \/ HostDebounceTimerFires
  \/ InlineGenerateStep
  \/ InlineAbortStep
  \/ InlineLoadStep
  \/ InlineExecutorSettles
  \/ InlineAbortTimerFires
  \/ InlineDebounceTimerFires
  \/ Tick

Spec == Init /\ [][Next]_vars

\* every executor call eventually settles, every timer that is due
\* eventually fires, and the clock advances
Fairness ==
  /\ WF_vars(HostExecutorSettles)
  /\ WF_vars(HostAbortTimerFires)
  /\ WF_vars(HostDebounceTimerFires)
  /\ WF_vars(Tick)

\* the worker host alone, with its own bound on the submissions
InitHost == Init /\ kind = "host"

HostLiveGenerateStep == nextId <= MaxLiveJobs /\ HostGenerateStep

NextHostLive ==
  \/ HostLiveGenerateStep
  \/ HostAbortStep
  \/ HostExecutorSettles
  \/ HostAbortTimerFires
  \/ HostDebounceTimerFires
  \/ Tick

LiveSpec == InitHost /\ [][NextHostLive]_vars /\ Fairness

\* --------------------------------- every event the schedulers can meet
\* besides the events of Spec: progress events of an outstanding executor
\* call, an executor call that rejects, and InlineScheduler.cleanup()
HostExecutorProgress ==
  /\ kind = "host"
  /\ \E j \in host.execs :
       /\ host' = Track(host, HostOnProgress(Begin(host), j))
       /\ req' = Ev("progress", j, "")
  /\ UNCHANGED <<kind, inl, now, nextId>>

HostExecutorRejects ==
  /\ kind = "host"
  /\ \E j \in host.execs :
       /\ host' = Track(host, HostRunJobRejected(Begin(host), j))
       /\ req' = Ev("reject", j, "")
  /\ UNCHANGED <<kind, inl, now, nextId>>

InlineExecutorProgress ==
  /\ kind = "inline"
  /\ \E j \in inl.execs :
       /\ inl' = Track(inl, InlineOnProgress(Begin(inl), j))
       /\ req' = Ev("progress", j, "")
  /\ UNCHANGED <<kind, host, now, nextId>>

InlineExecutorRejects ==
  /\ kind = "inline"
  /\ \E j \in inl.execs :
       /\ inl' = Track(inl, InlineRunJobRejected(Begin(inl), j))
       /\ req' = Ev("reject", j, "")
  /\ UNCHANGED <<kind, host, now, nextId>>

\* Txt2ImgClient.terminate()
InlineCleanupStep ==
  /\ kind = "inline"
  /\ inl' = Track(inl, InlineCleanup(Begin(inl)))
  /\ req' = Ev("cleanup", Null, "")
  /\ UNCHANGED <<kind, host, now, nextId>>

FullHostGenerateStep == nextId <= MaxFullJobs /\ HostGenerateStep

FullInlineGenerateStep == nextId <= MaxFullJobs /\ InlineGenerateStep

NextFull ==
  \/ FullHostGenerateStep
  \/ HostAbortStep
  \/ HostExecutorSettles
  \/ HostExecutorProgress
  \/ HostExecutorRejects
  \/ HostAbortTimerFires
  \/ HostDebounceTimerFires
  \/ FullInlineGenerateStep
  \/ InlineAbortStep
  \/ InlineLoadStep
  \/ InlineExecutorSettles
  \/ InlineExecutorProgress
  \/ InlineExecutorRejects
  \/ InlineCleanupStep
  \/ InlineAbortTimerFires
  \/ InlineDebounceTimerFires
  \/ Tick

FullSpec == Init /\ [][NextFull]_vars

\* ------------------------------------------------ progress normalisation
\* the events an executor hands to onProgress: pct missing, not a number, or
\* a number; progress missing, not a number, or a number of thousandths on
\* both sides of a rounding step and outside 0..1
PctInputs == {Undefined, NotANumber, Num(0), Num(50), Num(100)}

ProgressInputs ==
  {Undefined, NotANumber} \cup
  {Num(k) : k \in {-15, -5, 0, 4, 5, 494, 495, 504, 505, 994, 995, 1000, 1234}}

Events == [pct : PctInputs, progress : ProgressInputs, phase : {"loading", "denoising"}]

NormInit ==
  /\ kind \in {"host", "inline"}
  /\ host = InitSched
  /\ inl = [InitInline EXCEPT !.out = <<>>]
  /\ now = 0
  /\ nextId = 1
  /\ \E e \in Events : req = [op |-> "event", e |-> e, relayed |-> e]

HostRelays ==
  /\ kind = "host"
  /\ req.op = "event"
  /\ req' = [req EXCEPT !.op = "relayed", !.relayed = HostRelayedEvent(req.e)]
  /\ UNCHANGED <<kind, host, inl, now, nextId>>

InlineRelays ==
  /\ kind = "inline"
  /\ req.op = "event"
  /\ req' = [req EXCEPT !.op = "relayed", !.relayed = InlineRelayedEvent(req.e)]
  /\ UNCHANGED <<kind, host, inl, now, nextId>>

NextNorm == HostRelays \/ InlineRelays

NormSpec == NormInit /\ [][NextNorm]_vars

\* ------------------------------------------------------- model lifecycle
\* load and unload, in the worker host (onMessage) and in the inline client
\* (Txt2ImgClient).  The lifecycle record:
\* loadedModel   the model recorded as loaded, {} when none
\* loadInFlight  as in the source
\* loads         loadModel calls that have not settled, [id, model]
\* unloads       unloadModel calls that have not settled, [id, model, seen]
\*               (seen: the loadedModel the inline client read before the call)
\* calls         number of loadModel calls made
\* okLoads       history: the models whose loadModel call reported ok
LoadOutcomes == {"ok", "backend_unavailable", "rejected"}

InitLifecycle ==
  [ loadedModel |-> {}, loadInFlight |-> FALSE, loads |-> {}, unloads |-> {},
    calls |-> 0, okLoads |-> {}, out |-> <<>> ]

\* case 'load' that refuses only when a model is recorded as loaded
HostLoad_NoInFlightTest(l, id, model) ==
  IF l.loadedModel # {}
  THEN post(l, Msg("result", id, "busy"))
  ELSE [l EXCEPT !.loadInFlight = TRUE,
                 !.loads = @ \cup {[id |-> id, model |-> model]},
                 !.calls = @ + 1]

\* onMessage, case 'load'
HostLoad(l, id, model) ==
  IF l.loadedModel # {} \/ l.loadInFlight
  THEN post(l, Msg("result", id, "busy"))
  ELSE [l EXCEPT !.loadInFlight = TRUE,
                 !.loads = @ \cup {[id |-> id, model |-> model]},
                 !.calls = @ + 1]

\* the .then / .catch / .finally chain on the promise of loadModel
HostLoadSettled(l, c, outcome) ==
  LET l0 == [l EXCEPT !.loads = @ \ {c}]
      l1 == IF outcome = "ok"
            THEN [post(l0, Msg("result", c.id, "ok"))
                    EXCEPT !.loadedModel = {c.model}, !.okLoads = @ \cup {c.model}]
            ELSE IF outcome = "rejected"
            THEN post(l0, Msg("result", c.id, "internal_error"))
            ELSE post(l0, Msg("result", c.id, outcome))
  IN  [l1 EXCEPT !.loadInFlight = FALSE]

\* onMessage, case 'unload'
HostUnload(l, id, model) ==
  [l EXCEPT !.unloads = @ \cup {[id |-> id, model |-> model, seen |-> {}]}]

\* the .then / .catch on the promise of unloadModel
HostUnloadSettled(l, u, outcome) ==
  LET l0 == [l EXCEPT !.unloads = @ \ {u}]
  IN  IF outcome = "ok"
      THEN post(IF l0.loadedModel = {u.model} THEN [l0 EXCEPT !.loadedModel = {}] ELSE l0,
                Msg("result", u.id, "ok"))
      ELSE post(l0, Msg("result", u.id, "internal_error"))

\* Txt2ImgClient.load up to its await
InlineLoad(l, id, model) ==
  IF l.loadedModel # {} \/ l.loadInFlight
  THEN post(l, Msg("result", id, "busy"))
  ELSE [l EXCEPT !.loadInFlight = TRUE,
                 !.loads = @ \cup {[id |-> id, model |-> model]},
                 !.calls = @ + 1]

\* Txt2ImgClient.load after its await: try, catch and finally
InlineLoadSettled(l, c, outcome) ==
  LET l0 == [l EXCEPT !.loads = @ \ {c}]
      l1 == IF outcome = "ok"
            THEN [post(l0, Msg("result", c.id, "ok"))
                    EXCEPT !.loadedModel = {c.model}, !.okLoads = @ \cup {c.model}]
            ELSE IF outcome = "rejected"
            THEN post(l0, Msg("result", c.id, "internal_error"))
            ELSE post(l0, Msg("result", c.id, outcome))
  IN  [l1 EXCEPT !.loadInFlight = FALSE]

\* Txt2ImgClient.unload up to its await; model is {} when the argument is
\* left out
InlineUnload(l, id, model) ==
  LET loadedModel == l.loadedModel
      target == IF model # {} THEN model ELSE loadedModel
  IN  IF target = {} THEN post(l, Msg("result", id, "threw"))
      ELSE IF loadedModel # {} /\ loadedModel # target
      THEN post(l, Msg("result", id, "threw"))
      ELSE [l EXCEPT !.unloads = @ \cup
              {[id |-> id, model |-> OrElse(target, Null), seen |-> loadedModel]}]

\* Txt2ImgClient.unload after its await: loadedModel is the value read
\* before the await
InlineUnloadSettled(l, u, outcome) ==
  LET l0 == [l EXCEPT !.unloads = @ \ {u}]
  IN  IF outcome = "ok"
      THEN post(IF u.seen = {u.model} THEN [l0 EXCEPT !.loadedModel = {}] ELSE l0,
                Msg("result", u.id, "ok"))
      ELSE post(l0, Msg("result", u.id, "threw"))

LoadInit ==
  /\ kind \in {"host", "inline"}
  /\ host = InitLifecycle
  /\ inl = InitLifecycle
  /\ now = 0
  /\ nextId = 1
  /\ req = Ev("init", Null, "")

HostLoadStep ==
  /\ kind = "host"
  /\ nextId <= MaxLoadCalls
  /\ \E model \in Models : host' = HostLoad(Begin(host), nextId, model)
  /\ req' = Ev("load", nextId, "")
  /\ nextId' = nextId + 1
  /\ UNCHANGED <<kind, inl, now>>

HostLoadSettles ==
  /\ kind = "host"
  /\ \E c \in host.loads, outcome \in LoadOutcomes :
       /\ host' = HostLoadSettled(Begin(host), c, outcome)
       /\ req' = Ev("loaded", c.id, outcome)
  /\ UNCHANGED <<kind, inl, now, nextId>>

HostUnloadStep ==
  /\ kind = "host"
  /\ nextId <= MaxLoadCalls
  /\ \E model \in Models : host' = HostUnload(Begin(host), nextId, model)
  /\ req' = Ev("unload", nextId, "")
  /\ nextId' = nextId + 1
  /\ UNCHANGED <<kind, inl, now>>

HostUnloadSettles ==
  /\ kind = "host"
  /\ \E u \in host.unloads, outcome \in {"ok", "rejected"} :
       /\ host' = HostUnloadSettled(Begin(host), u, outcome)
       /\ req' = Ev("unloaded", u.id, outcome)
  /\ UNCHANGED <<kind, inl, now, nextId>>

ClientLoadStep ==
  /\ kind = "inline"
  /\ nextId <= MaxLoadCalls
  /\ \E model \in Models : inl' = InlineLoad(Begin(inl), nextId, model)
  /\ req' = Ev("load", nextId, "")
  /\ nextId' = nextId + 1
  /\ UNCHANGED <<kind, host, now>>

ClientLoadSettles ==
  /\ kind = "inline"
  /\ \E c \in inl.loads, outcome \in LoadOutcomes :
       /\ inl' = InlineLoadSettled(Begin(inl), c, outcome)
       /\ req' = Ev("loaded", c.id, outcome)
  /\ UNCHANGED <<kind, host, now, nextId>>

ClientUnloadStep ==
  /\ kind = "inline"
  /\ nextId <= MaxLoadCalls
  /\ \E model \in ModelInputs : inl' = InlineUnload(Begin(inl), nextId, model)
  /\ req' = Ev("unload", nextId, "")
  /\ nextId' = nextId + 1
  /\ UNCHANGED <<kind, host, now>>

ClientUnloadSettles ==
  /\ kind = "inline"
  /\ \E u \in inl.unloads, outcome \in {"ok", "rejected"} :
       /\ inl' = InlineUnloadSettled(Begin(inl), u, outcome)
       /\ req' = Ev("unloaded", u.id, outcome)
  /\ UNCHANGED <<kind, host, now, nextId>>

NextLoad ==
  \/ HostLoadStep
  \/ HostLoadSettles
  \/ HostUnloadStep
  \/ HostUnloadSettles
  \/ ClientLoadStep
  \/ ClientLoadSettles
  \/ ClientUnloadStep
  \/ ClientUnloadSettles

LoadSpec == LoadInit /\ [][NextLoad]_vars

\* ------------------------------------------------- Txt2ImgWorkerClient
\* the client in front of the worker host.  Its record (held in inl):
\* pending   the keys of the pending map, [kind, id] of each request sent
\*           and not answered by a 'result'
\* sent      number of abort requests sent (each draws a fresh id)
\* A message the host posts while it handles an abort request carries the id
\* of that request; the scheduler record writes it with id Null.
InitClient == [pending |-> {}, sent |-> 0]

\* Txt2ImgWorkerClient.send
ClientSend(c, key) == [c EXCEPT !.pending = @ \cup {key}]

\* Txt2ImgWorkerClient.onMessage; request is the key of the request the host
\* was handling when it posted msg
ClientOnMessage(c, msg, request) ==
  LET key == IF msg.id = Null THEN request ELSE [kind |-> "generate", id |-> msg.id]
  IN  IF msg.type = "state" THEN c
      ELSE IF key \notin c.pending THEN c
      ELSE IF msg.type = "result" THEN [c EXCEPT !.pending = @ \ {key}]
      ELSE c

RECURSIVE ClientOnMessages(_, _, _)
\* the messages of one handler of the host, in the order they were posted
ClientOnMessages(c, out, request) ==
  IF out = <<>> THEN c
  ELSE ClientOnMessages(ClientOnMessage(c, Head(out), request), Tail(out), request)

NoRequest == [kind |-> "none", id |-> Null]

ClientInit ==
  /\ kind = "client"
  /\ host = InitSched
  /\ inl = InitClient
  /\ now = 0
  /\ nextId = 1
  /\ req = Ev("init", Null, "")

\* Txt2ImgWorkerClient.generate
ClientGenerateStep ==
  /\ kind = "client"
  /\ nextId <= MaxLiveJobs
  /\ \E p \in PolicyInputs, r \in ReplaceInputs, d \in DebounceInputs :
       /\ CanSubmit(d)
       /\ host' = Installed(host, HostGenerate(Begin(host), nextId, p, r, d), nextId, d)
       /\ req' = [Ev("generate", nextId, "") EXCEPT !.D = Max(0, OrElse(d, 0))]
  /\ inl' = LET key == [kind |-> "generate", id |-> nextId]
            IN  ClientOnMessages(ClientSend(inl, key), host'.out, key)
  /\ nextId' = nextId + 1
  /\ UNCHANGED <<kind, now>>

\* the abort() closure handed out by Txt2ImgWorkerClient.generate
ClientAbortStep ==
  /\ kind = "client"
  /\ nextId > 1
  /\ inl.sent < MaxClientAborts
  /\ host' = Track(host, HostAbort(Begin(host)))
  /\ req' = Ev("abort", inl.sent + 1, "")
  /\ inl' = LET key == [kind |-> "abort", id |-> inl.sent + 1]
            IN  ClientOnMessages(ClientSend([inl EXCEPT !.sent = @ + 1], key), host'.out, key)
  /\ UNCHANGED <<kind, now, nextId>>

ClientExecutorSettles ==
  /\ kind = "client"
  /\ \E j \in host.execs, res \in ExecOutcomes :
       /\ res = "cancelled" => host.signaled[j] > 0
       /\ host' = Track(host, HostRunJobDone(Begin(host), j, res))
       /\ req' = Ev("settle", j, res)
  /\ inl' = ClientOnMessages(inl, host'.out, NoRequest)
  /\ UNCHANGED <<kind, now, nextId>>

ClientAbortTimerFires ==
  /\ kind = "client"
  /\ \E t \in host.timers :
       /\ t.kind = "abort" /\ now >= t.due
       /\ host' = Track(host, HostAbortTimerFired(Begin(host), t))
  /\ req' = Ev("abortTimer", Null, "")
  /\ inl' = ClientOnMessages(inl, host'.out, NoRequest)
  /\ UNCHANGED <<kind, now, nextId>>

ClientDebounceTimerFires ==
  /\ kind = "client"
  /\ \E t \in host.timers :
       /\ t.kind = "debounce" /\ now >= t.due
       /\ host' = Track(host, HostDebounceTimerFired(Begin(host), t))
  /\ req' = Ev("debounceTimer", Null, "")
  /\ inl' = ClientOnMessages(inl, host'.out, NoRequest)
  /\ UNCHANGED <<kind, now, nextId>>

NextClient ==
  \/ ClientGenerateStep
  \/ ClientAbortStep
  \/ ClientExecutorSettles
  \/ ClientAbortTimerFires
  \/ ClientDebounceTimerFires
  \/ Tick

\* every executor call eventually settles, every timer that is due
\* eventually fires, and the clock advances
ClientFairness ==
  /\ WF_vars(ClientExecutorSettles)
  /\ WF_vars(ClientAbortTimerFires)
  /\ WF_vars(ClientDebounceTimerFires)
  /\ WF_vars(Tick)

ClientSpec == ClientInit /\ [][NextClient]_vars /\ ClientFairness

\* ------------------------------------------- re-entrant submissions
\* a submission that passes the model checks while the scheduler has no
\* current job, made with a state-change listener registered that submits
\* one more job from inside its 'running' notification
InlineReentrantGenerateStep ==
  /\ kind = "inline"
  /\ nextId + 1 <= MaxFullJobs
  /\ inl.loadedModel # {}
  /\ inl.currentJob = Null
  /\ \E p \in PolicyInputs :
       inl' = Track(inl, InlineEnqueueGenerateReentrant(Begin(inl), nextId, nextId + 1, p))
  /\ req' = Ev("reentrant", nextId, "")
  /\ nextId' = nextId + 2
  /\ UNCHANGED <<kind, host, now>>

NextReentrant == NextFull \/ InlineReentrantGenerateStep

ReentrantSpec == Init /\ [][NextReentrant]_vars

\* ---------------------------------------------- both bindings in lock step
\* the worker host and the InlineScheduler are handed the same events
PairInit ==
  /\ kind = "pair"
  /\ host = InitSched
  /\ inl = [InitInline EXCEPT !.out = <<>>]
  /\ now = 0
  /\ nextId = 1
  /\ req = Ev("init", Null, "")

\* load() on both clients; the host's 'load' records loadedModel, which its
\* 'generate' never reads
PairLoadStep ==
  /\ kind = "pair"
  /\ inl.loadedModel = {}
  /\ \E m \in Models : inl' = InlineSetLoadedModel(Begin(inl), {m})
  /\ host' = Begin(host)
  /\ req' = Ev("load", Null, "")
  /\ UNCHANGED <<kind, now, nextId>>

\* the same generate (for the loaded model) is submitted to both
PairGenerateWith(p, r, d) ==
  /\ kind = "pair"
  /\ CanSubmit(d)
  /\ inl.loadedModel # {}
  /\ host' = HostGenerate(Begin(host), nextId, p, r, d)
  /\ inl' = InlineEnqueueGenerate(Begin(inl), nextId, {}, p, r, d)
  /\ req' = [Ev("generate", nextId, "") EXCEPT !.D = Max(0, OrElse(d, 0))]
  /\ nextId' = nextId + 1
  /\ UNCHANGED <<kind, now>>

PairGenerateStep ==
  \E p \in PolicyInputs, r \in ReplaceInputs, d \in DebounceInputs : PairGenerateWith(p, r, d)

PairAbortStep ==
  /\ kind = "pair"
  /\ host' = HostAbort(Begin(host))
  /\ inl' = InlineAbort(Begin(inl))
  /\ req' = Ev("abort", Null, "")
  /\ UNCHANGED <<kind, now, nextId>>

\* the executor gives the same outcome for the same job on both sides
PairExecutorSettles ==
  /\ kind = "pair"
  /\ \E j \in host.execs \cap inl.execs, res \in ExecOutcomes :
       /\ res = "cancelled" => (host.signaled[j] > 0 /\ inl.signaled[j] > 0)
       /\ host' = HostRunJobDone(Begin(host), j, res)
       /\ inl' = InlineRunJobDone(Begin(inl), j, res)
       /\ req' = Ev("settle", j, res)
  /\ UNCHANGED <<kind, now, nextId>>

PairAbortTimerFires ==
  /\ kind = "pair"
  /\ \E t \in host.timers, u \in inl.timers :
       /\ t.kind = "abort" /\ now >= t.due
       /\ u.kind = "abort" /\ now >= u.due
       /\ host' = HostAbortTimerFired(Begin(host), t)
       /\ inl' = InlineAbortTimerFired(Begin(inl), u)
  /\ req' = Ev("abortTimer", Null, "")
  /\ UNCHANGED <<kind, now, nextId>>

PairDebounceTimerFires ==
  /\ kind = "pair"
  /\ \E t \in host.timers, u \in inl.timers :
       /\ t.kind = "debounce" /\ now >= t.due
       /\ u.kind = "debounce" /\ now >= u.due
       /\ host' = HostDebounceTimerFired(Begin(host), t)
       /\ inl' = InlineDebounceTimerFired(Begin(inl), u)
  /\ req' = Ev("debounceTimer", Null, "")
  /\ UNCHANGED <<kind, now, nextId>>

NextPair ==
  \/ PairLoadStep
  \/ PairGenerateStep
  \/ PairAbortStep
  \/ PairExecutorSettles
  \/ PairAbortTimerFires
  \/ PairDebounceTimerFires
  \/ Tick

PairSpec == PairInit /\ [][NextPair]_vars

\* the step handles a generate in the worker host / in the InlineScheduler
HostGenerates == kind = "host" /\ req'.op = "generate"

InlineGenerates == kind = "inline" /\ req'.op = "generate"

\* the scheduler under test
S == IF kind = "host" THEN host ELSE inl

TypeOK ==
  /\ S.currentJob \in Jobs \cup {Null}
  /\ S.pendingJob.id \in Jobs \cup {Null}
  /\ S.state \in WorkerState
  /\ S.execs \subseteq Jobs

\* ----------------------------------------------------------------- claims

\* C1 Single-flight: in the worker host and in the InlineScheduler, under
\* generate submissions with any busy policy, abort requests, executor
\* completions and firings of the debounce timer and of the abort guard, at
\* most one generateImage call is outstanding at any instant.
SingleFlight ==
  /\ Cardinality(host.execs) <= 1
  /\ Cardinality(inl.execs) <= 1

\* the job that has just left the pending slot is the one executing
SingleFlightWitness ==
  /\ S.inst.id # Null
  /\ S.pendingJob.id # S.inst.id
  /\ S.execs = {S.inst.id}

AtMostOnceSettlement ==
  \A j \in Jobs : Len(host.results[j]) <= 1 /\ Len(inl.results[j]) <= 1

\* a displaced job holds its single result and the job that displaced it has
\* run and holds its single result too
AtMostOnceSettlementWitness ==
  /\ S.execs = {}
  /\ \E j \in Jobs, k \in Jobs :
       /\ j < k
       /\ S.started[j] = 0 /\ Len(S.results[j]) = 1
       /\ S.started[k] = 1 /\ Len(S.results[k]) = 1
       /\ S.results[j][1] \in {"superseded", "cancelled"}

\* the jobs that were submitted and have neither been started nor settled
Waiting(s) == {j \in Jobs : j < nextId /\ s.started[j] = 0 /\ s.results[j] = <<>>}

\* C4 Single pending slot (worker host): the only job that waits is the
\* occupant of the pending slot; when a generate displaces the occupant, the
\* occupant's 'superseded' result is the first thing the step emits, before
\* anything about the new occupant, and a displaced job is never handed to
\* the executor.
SinglePendingSlot ==
  /\ [](kind = "host" => Waiting(host) \subseteq {host.pendingJob.id})
  /\ [](\A j \in Jobs : host.results[j] = <<"superseded">> =>
            /\ host.started[j] = 0
            /\ host.currentJob # j /\ host.pendingJob.id # j)
  /\ [][ (/\ host.pendingJob # NoPending
          /\ host'.pendingJob # NoPending
          /\ host'.pendingJob.id # host.pendingJob.id)
         => /\ host'.out[1] = Msg("result", host.pendingJob.id, "superseded")
            /\ host'.results[host.pendingJob.id] = <<"superseded">>
            /\ host'.started[host.pendingJob.id] = 0 ]_vars

\* a generate has just displaced the occupant of the slot
SinglePendingSlotWitness ==
  /\ kind = "host"
  /\ req.op = "generate"
  /\ host.pendingJob.id = req.id
  /\ \E j \in Jobs : j # req.id /\ host.out[1] = Msg("result", j, "superseded")

\* C5 Immediate start only when idle: a submission has its executor call
\* started in the step that submits it only if, before the step, there was no
\* current job and no pending job; in particular a newcomer never starts
\* ahead of a job that waits in the pending slot for its debounce deadline.
ImmediateStartOnlyWhenIdle ==
  [][ (req'.op = "generate" /\ req'.id # Null /\ req'.id \in S'.execs)
      => (S.currentJob = Null /\ S.pendingJob = NoPending) ]_vars

\* C6 Reject purity (worker host): a generate with policy 'reject' that finds
\* a current job gets 'busy' in the same step, and currentJob, pendingJob with
\* its debounce deadline, the aborting flag, the abort guard timer, the
\* debounce timer and the token of the running job are left as they were.
RejectPurity ==
  [][ HostGenerates => \A r \in ReplaceInputs, d \in DebounceInputs :
        (HostGenerateWith({"reject"}, r, d) /\ host.currentJob # Null)
        => /\ host'.out = <<Msg("result", nextId, "busy")>>
           /\ host'.results[nextId] = <<"busy">>
           /\ host'.currentJob = host.currentJob
           /\ host'.pendingJob = host.pendingJob
           /\ host'.aborting = host.aborting
           /\ host'.abortTimer = host.abortTimer
           /\ host'.debounceTimer = host.debounceTimer
           /\ host'.timers = host.timers
           /\ host'.signaled = host.signaled
           /\ host'.execs = host.execs ]_vars

\* 'busy' came back while a job runs, another waits behind its debounce
\* deadline and the abort guard is armed: only 'reject' answers like this
\* with nothing else emitted
RejectPurityWitness ==
  /\ kind = "host"
  /\ req.op = "generate"
  /\ host.out = <<Msg("result", req.id, "busy")>>
  /\ host.currentJob # Null
  /\ host.pendingJob.debounceUntil # {}
  /\ host.aborting
  /\ \E t \in host.timers : t.kind = "abort"

\* C7 Token signaled at most once: for every job the scheduler calls abort()
\* on the job's AbortController at most once.
TokenSignaledAtMostOnce ==
  \A j \in Jobs : host.signaled[j] <= 1 /\ inl.signaled[j] <= 1

\* C8 Debounce timing: a job installed in the pending slot at time t with
\* debounceMs = D > 0 is not promoted to running before t + D.
DebounceTiming ==
  \A j \in Jobs :
    (S.inst.id = j /\ S.inst.D > 0 /\ (j \in S.execs \/ S.currentJob = j))
    => now >= S.inst.at + S.inst.D

\* the debounce timer has just promoted a job, exactly at its deadline, the
\* job before it having finished earlier
DebounceTimingWitness ==
  /\ kind = "host"
  /\ req.op = "debounceTimer"
  /\ host.inst.id # Null /\ host.inst.D > 0
  /\ host.execs = {host.inst.id}
  /\ now = host.inst.at + host.inst.D

Promotable(s) == OrElse(s.pendingJob.debounceUntil, 0) <= now

ReportedStates(out) == SelectSeq(out, LAMBDA m : m.type = "state")

\* C11 Transport equivalence: handed the same submissions, abort requests,
\* executor outcomes and timer firings, the InlineScheduler and the worker
\* host report the same states in the same order and give every job the same
\* terminal outcome.
TransportEquivalence ==
  kind = "pair" =>
    /\ host.state = inl.state
    /\ req.op \notin {"init", "tick"} =>
         ReportedStates(host.out) = ReportedStates(inl.out)
    /\ \A j \in Jobs : host.results[j] = inl.results[j]

\* C12 InlineScheduler outcome reasons: a submission refused while a job is
\* current (policy 'reject', or replaceQueued = false with the pending slot
\* occupied) resolves with 'busy', and a pending job displaced by a newer
\* submission resolves with 'superseded'.
InlineOutcomeReasons ==
  [][ InlineGenerates => \A m \in ModelInputs, p \in PolicyInputs, r \in ReplaceInputs, d \in DebounceInputs :
        (InlineGenerateWith(m, p, r, d) /\ req'.id # Null /\ inl.currentJob # Null)
        => /\ (inl'.pendingJob.id # nextId) => inl'.results[nextId] = <<"busy">>
           /\ (inl'.pendingJob.id = nextId /\ inl.pendingJob # NoPending)
                => inl'.results[inl.pendingJob.id] = <<"superseded">> ]_vars

\* C13 Completion ordering: when the executor of the current job settles, the
\* terminal result of the finished job is delivered before the pending job is
\* promoted, that is before the next 'running' state is reported and before
\* the next executor call is started, in both schedulers.
CompletionOrdering ==
  req.op = "settle" =>
    \A i \in 1..Len(S.out), k \in 1..Len(S.out) :
      (/\ S.out[i].type = "result" /\ S.out[i].id = req.id
       /\ (S.out[k].type = "exec" \/ S.out[k] = Msg("state", Null, "running")))
      => i < k

\* C14 Timeout-hint recipient: when the abort guard fires while the aborted
\* job is still current, the 'aborting_timeout' hint goes to the progress sink
\* of that job and to no other, in both schedulers, whether the abort came
\* from an abort request or from an abort_and_queue submission.
TimeoutHintRecipient ==
  (req.op = "abortTimer" /\ S.currentJob # Null)
  => S.out = <<Msg("progress", S.currentJob, "aborting_timeout")>>

\* the state the triple (current job, pending job, cancellation in flight)
\* stands for
DerivedStateOf(s) ==
  IF s.pendingJob # NoPending THEN "queued"
  ELSE IF s.currentJob # Null /\ s.aborting THEN "aborting"
  ELSE IF s.currentJob # Null THEN "running"
  ELSE "idle"

\* C15 Reported state is derived: the reported state is 'queued' when the
\* pending slot is occupied, 'aborting' when the current job is being
\* cancelled and nothing is pending, 'running' when a current job runs
\* uncancelled and nothing is pending, and 'idle' otherwise.
DerivedState == S.state = DerivedStateOf(S)

IdleBusyConsistent(s) ==
  /\ s.state = "idle" => (s.currentJob = Null /\ s.pendingJob = NoPending)
  /\ s.state \in {"running", "queued", "aborting"} =>
       (s.currentJob # Null \/ s.pendingJob # NoPending)

\* C16 Idle/busy state consistency: after every step, in both schedulers, the
\* last reported state is 'idle' only if current and pending job are both
\* absent and is 'running', 'queued' or 'aborting' only if one of them is
\* present; the initial reported state is 'idle'.
IdleBusyConsistency ==
  /\ IdleBusyConsistent(host)
  /\ IdleBusyConsistent(inl)
  /\ req.op = "init" =>
       /\ host.state = "idle" /\ inl.state = "idle"
       /\ host.out = <<Msg("state", Null, "idle")>>

\* the current job has finished while another waits behind its debounce
\* deadline: nothing is current and 'queued' is reported
IdleBusyConsistencyWitness ==
  /\ req.op = "settle"
  /\ S.currentJob = Null
  /\ S.pendingJob # NoPending
  /\ S.state = "queued"
  /\ \E t \in S.timers : t.kind = "debounce"

\* what a scheduler holds, apart from what it emitted
Core(s) ==
  [ currentJob |-> s.currentJob, pendingJob |-> s.pendingJob,
    aborting |-> s.aborting, abortTimer |-> s.abortTimer,
    debounceTimer |-> s.debounceTimer, timers |-> s.timers,
    state |-> s.state, execs |-> s.execs, signaled |-> s.signaled,
    results |-> s.results ]

\* C17 Idempotent cancel while aborting: while the aborting flag is set, a
\* further abort request or submission (abort_and_queue included) does not
\* signal the token of the current job again and neither restarts nor adds
\* an abort guard timer; and two abort requests in succession leave the
\* scheduler as one does.
IdempotentCancel ==
  /\ [][ (req'.op = "abort" /\ S.aborting) => Core(S') = Core(S) ]_vars
  /\ [][ (req'.op = "generate" /\ req'.id # Null /\ S.aborting)
         => /\ S'.signaled = S.signaled
            /\ S'.timers = S.timers
            /\ S'.abortTimer = S.abortTimer
            /\ S'.aborting ]_vars
  /\ [](/\ Core(HostAbort(HostAbort(host))) = Core(HostAbort(host))
        /\ Core(InlineAbort(InlineAbort(inl))) = Core(InlineAbort(inl)))

\* an abort request has arrived while the current job was already being
\* aborted: it was accepted, the token has its one signal and the one guard
\* is armed
IdempotentCancelWitness ==
  /\ kind = "host"
  /\ req.op = "abort"
  /\ host.out = <<Msg("accepted", Null, "abort")>>
  /\ host.aborting
  /\ host.signaled[host.currentJob] = 1
  /\ Cardinality({t \in host.timers : t.kind = "abort"}) = 1

\* C18 Cancel with no active job: an abort request that finds no current job
\* settles no job and leaves currentJob, pendingJob, the aborting flag and
\* both timers as they were (the worker host answers the request with an ok
\* result), also while a pending job waits for its debounce deadline.
CancelWithoutJob ==
  [][ (req'.op = "abort" /\ S.currentJob = Null)
      => /\ Core(S') = Core(S)
         /\ kind = "host" => host'.out = <<Msg("result", Null, "ok")>>
         /\ kind = "inline" => inl'.out = <<>> ]_vars

\* the abort request was answered ok while a pending job waits for its
\* debounce timer and no job is current
CancelWithoutJobWitness ==
  /\ kind = "host"
  /\ req.op = "abort"
  /\ host.out = <<Msg("result", Null, "ok")>>
  /\ host.currentJob = Null
  /\ host.pendingJob # NoPending
  /\ \E t \in host.timers : t.kind = "debounce" /\ t.id = host.debounceTimer

\* the deadline a submission with debounceMs (clamped at 0) gives the slot
DeadlineOf(debounceMs) == IF debounceMs > 0 THEN {now + debounceMs} ELSE {}

\* C19 Debounce deadline is last-writer-wins: when a submission replaces the
\* occupant of the pending slot, the deadline of the slot becomes the arrival
\* time of the new submission plus its own debounceMs and the deadline of the
\* displaced job is gone; so when the current job's executor settles, the
\* occupant is promoted in that step if its own deadline is over, and
\* otherwise waits for a timer set to its own deadline.
DebounceLastWriterWins ==
  /\ [][ (/\ req'.op = "generate" /\ req'.id # Null
          /\ S.pendingJob # NoPending /\ S'.pendingJob.id = req'.id)
         => S'.pendingJob.debounceUntil = DeadlineOf(req'.D) ]_vars
  /\ [][ (/\ req'.op = "settle" /\ req'.id = S.currentJob
          /\ S.pendingJob # NoPending)
         => /\ S.inst.id = S.pendingJob.id
            /\ IF now >= S.inst.at + S.inst.D
               THEN /\ S'.currentJob = S.pendingJob.id
                    /\ S'.execs = {S.pendingJob.id}
               ELSE /\ S'.currentJob = Null
                    /\ S'.pendingJob = S.pendingJob
                    /\ \E t \in S'.timers :
                         /\ t.kind = "debounce" /\ t.id = S'.debounceTimer
                         /\ t.due = S.inst.at + S.inst.D ]_vars

\* a job was displaced from the pending slot, and the job that replaced it
\* waits, after the current job has finished, for a timer set to its own
\* arrival time plus its own debounceMs
DebounceLastWriterWinsWitness ==
  /\ kind = "host"
  /\ req.op = "settle"
  /\ host.currentJob = Null
  /\ host.pendingJob.id = host.inst.id
  /\ host.inst.D > 0 /\ host.inst.at > 0
  /\ \E t \in host.timers : t.kind = "debounce" /\ t.due = host.inst.at + host.inst.D
  /\ \E j \in Jobs : j < host.inst.id /\ host.results[j] = <<"superseded">>

\* C20 Debounce never delays an immediate start: a submission that arrives
\* while no job is current and none is pending has its executor call started
\* in the same step whatever its debounceMs, and no timer is armed for it; a
\* debounce timer is only ever armed for the occupant of the pending slot.
DebounceNeverDelaysStart ==
  /\ [][ (/\ req'.op = "generate" /\ req'.id # Null
          /\ S.currentJob = Null /\ S.pendingJob = NoPending)
         => /\ S'.currentJob = req'.id
            /\ S'.execs = {req'.id}
            /\ S'.started[req'.id] = 1
            /\ S'.pendingJob = NoPending
            /\ S'.timers = S.timers
            /\ S'.debounceTimer = S.debounceTimer ]_vars
  /\ [](\A t \in S.timers : t.kind = "debounce" => S.pendingJob # NoPending)

\* a submission with the largest debounceMs has arrived at an idle scheduler
\* and is executing in the step that submitted it
DebounceNeverDelaysStartWitness ==
  /\ req.op = "generate"
  /\ req.D = ABORT_TIMEOUT_MS
  /\ S.currentJob = req.id
  /\ S.execs = {req.id}
  /\ S.pendingJob = NoPending
  /\ S.timers = {}

AbortGuards(s) == {t \in s.timers : t.kind = "abort"}

\* C22 Guard cancelled on timely settlement: when the job being aborted
\* settles, its guard is cancelled; an armed guard always belongs to the
\* current job, which has been signaled and whose executor call is
\* outstanding; no guard survives a change of the current job, so a guard
\* fires, and a hint is emitted, only against the job it was armed for while
\* that job is still unsettled.
GuardCancelledOnSettlement ==
  /\ [](AbortGuards(S) # {} =>
          /\ S.aborting
          /\ S.currentJob # Null
          /\ S.signaled[S.currentJob] >= 1
          /\ S.currentJob \in S.execs
          /\ S.results[S.currentJob] = <<>>)
  /\ [][ S'.currentJob # S.currentJob => AbortGuards(S') = {} ]_vars
  /\ [][ (req'.op = "settle" /\ req'.id = S.currentJob) => AbortGuards(S') = {} ]_vars
  /\ [][ (\E i \in 1..Len(S'.out) : S'.out[i].type = "progress")
         => (req'.op = "abortTimer" /\ AbortGuards(S) # {}) ]_vars

\* an aborted job has settled before the deadline of its guard: the guard is
\* gone and the job queued behind it is current
GuardCancelledOnSettlementWitness ==
  /\ req.op = "settle"
  /\ S.signaled[req.id] = 1
  /\ now < ABORT_TIMEOUT_MS
  /\ AbortGuards(S) = {}
  /\ S.abortTimer = Null
  /\ S.currentJob # Null /\ S.currentJob # req.id

\* C23 Guard firing is non-fatal: when the abort guard fires while the aborted
\* job is still current, the hint is emitted and the aborting flag is cleared
\* and nothing else happens: currentJob, pendingJob with its deadline, the
\* results and the outstanding executor call are as before; and the pending
\* job becomes current only in the step in which the executor of the current
\* job settles.
GuardFiringNonFatal ==
  /\ [][ (req'.op = "abortTimer" /\ S.currentJob # Null)
         => /\ ~S'.aborting
            /\ S'.currentJob = S.currentJob
            /\ S'.pendingJob = S.pendingJob
            /\ S'.results = S.results
            /\ S'.execs = S.execs
            /\ S'.started = S.started
            /\ S'.signaled = S.signaled
            /\ S'.state = S.state
            /\ S'.debounceTimer = S.debounceTimer
            /\ S'.timers \subseteq S.timers
            /\ S.timers \ S'.timers \subseteq AbortGuards(S)
            /\ \A i \in 1..Len(S'.out) : S'.out[i].v = "aborting_timeout"
            /\ kind = "host" =>
                 host'.out = <<Msg("progress", host.currentJob, "aborting_timeout")>> ]_vars
  /\ [][ (/\ S.currentJob # Null /\ S.pendingJob # NoPending
          /\ S'.currentJob = S.pendingJob.id)
         => (req'.op = "settle" /\ req'.id = S.currentJob) ]_vars

\* the guard has fired on a job that is still executing, with another job
\* waiting behind it
GuardFiringNonFatalWitness ==
  /\ req.op = "abortTimer"
  /\ S.currentJob # Null
  /\ S.execs = {S.currentJob}
  /\ S.pendingJob # NoPending
  /\ ~S.aborting
  /\ S.state = "aborting"

\* C26 Cancel targets the active job only: the abort function handed out by a
\* submission holds no reference to the job it came with; calling it signals
\* the job that is current at that moment (once) and no other, and leaves
\* the pending job, its deadline, its timer and every result as they were;
\* and when the signaled job's executor settles, the pending job is promoted
\* at its own deadline.
CancelTargetsActiveJob ==
  /\ [][ req'.op = "abort"
         => /\ S'.currentJob = S.currentJob
            /\ S'.pendingJob = S.pendingJob
            /\ S'.results = S.results
            /\ S'.debounceTimer = S.debounceTimer
            /\ S'.timers \ AbortGuards(S') = S.timers \ AbortGuards(S)
            /\ \A j \in Jobs :
                 S'.signaled[j] =
                   IF j = S.currentJob /\ ~S.aborting THEN S.signaled[j] + 1
                   ELSE S.signaled[j] ]_vars
  /\ [][ (/\ req'.op = "settle" /\ req'.id = S.currentJob
          /\ S.signaled[S.currentJob] >= 1 /\ S.pendingJob # NoPending)
         => IF now >= S.inst.at + S.inst.D
            THEN S'.currentJob = S.pendingJob.id /\ S'.execs = {S.pendingJob.id}
            ELSE /\ S'.pendingJob = S.pendingJob
                 /\ \E t \in S'.timers : t.kind = "debounce" /\ t.due = S.inst.at + S.inst.D ]_vars

\* abort was called while a job waits in the pending slot behind its
\* deadline: the running job got the signal, the waiting job got none and
\* is still in the slot
CancelTargetsActiveJobWitness ==
  /\ req.op = "abort"
  /\ S.currentJob # Null
  /\ S.signaled[S.currentJob] = 1
  /\ S.aborting
  /\ S.pendingJob # NoPending
  /\ S.pendingJob.debounceUntil # {}
  /\ S.signaled[S.pendingJob.id] = 0
  /\ S.results[S.pendingJob.id] = <<>>
  /\ S.out[1] = Msg("state", Null, "aborting")

\* the model enqueueGenerate is asked for is not the one that is loaded
ModelMismatch(s, model) ==
  \/ s.loadedModel = {}
  \/ (model # {} /\ model # s.loadedModel)

\* C28 model_not_loaded is side-effect free (InlineScheduler): when no model
\* is loaded or params.model differs from the loaded model, enqueueGenerate
\* resolves with 'model_not_loaded' and nothing else happens: no executor
\* call, no job id drawn, and currentJob, pendingJob, the aborting flag, both
\* timers, the reported state and all results are as before, in whatever
\* state the scheduler is.
ModelNotLoadedPure ==
  /\ [](kind = "inline" => \A m \in ModelInputs, p \in PolicyInputs :
          ModelMismatch(inl, m) =>
            LET after == InlineEnqueueGenerate(Begin(inl), nextId, m, p, {}, {})
            IN  /\ after.out = <<Msg("result", Null, "model_not_loaded")>>
                /\ Core(after) = Core(inl)
                /\ after.started = inl.started)
  /\ [][ (InlineGenerates /\ req'.id = Null)
         => /\ inl'.out = <<Msg("result", Null, "model_not_loaded")>>
            /\ Core(inl') = Core(inl)
            /\ inl'.started = inl.started
            /\ inl'.loadedModel = inl.loadedModel
            /\ nextId' = nextId ]_vars
  /\ [][ (InlineGenerates /\ req'.id # Null) => inl.loadedModel # {} ]_vars

\* a generate for the wrong model was refused while one job is being
\* aborted and another waits in the pending slot
ModelNotLoadedPureWitness ==
  /\ kind = "inline"
  /\ req.op = "generate" /\ req.id = Null
  /\ inl.out = <<Msg("result", Null, "model_not_loaded")>>
  /\ inl.loadedModel # {}
  /\ inl.currentJob # Null /\ inl.aborting
  /\ inl.pendingJob # NoPending
  /\ AbortGuards(inl) # {}

\* C24  Progress relay isolation: a progress event of an executor call is
\* relayed under the id of the job the call belongs to, and only while that
\* job is the current job of the scheduler.  In the InlineScheduler cleanup()
\* empties the current slot while the executor call is outstanding, and the
\* events of that call are still relayed.
ProgressRelayIsolation ==
  req.op = "progress" =>
    /\ S.currentJob = req.id
    /\ \A i \in 1..Len(S.out) :
         S.out[i].type = "progress" => S.out[i].id = req.id

\* C30  Executor rejection does not wedge the scheduler: when the executor
\* call of the current job rejects, the current slot is freed and the
\* submitter of the job receives a terminal result.  runJob has no handler
\* around its await: the slot keeps the job, and the worker host posts
\* nothing for it.
ExecutorRejectionFreesSlot ==
  req.op = "reject" =>
    /\ S.currentJob # req.id
    /\ S.results[req.id] # <<>>

ProgressNormalization ==
  req.op = "relayed" =>
    /\ req.relayed.progress = req.e.progress
    /\ req.relayed.phase = req.e.phase
    /\ req.e.pct.t = "number" => req.relayed.pct = req.e.pct
    /\ (req.e.pct.t # "number" /\ req.e.progress.t = "number") =>
         /\ req.relayed.pct.t = "number"
         /\ 10 * req.relayed.pct.n - 5 <= req.e.progress.n
         /\ req.e.progress.n < 10 * req.relayed.pct.n + 5
    /\ (req.e.pct.t # "number" /\ req.e.progress.t # "number") =>
         req.relayed.pct = Undefined

ProgressNormalizationWitness ==
  /\ req.op = "relayed"
  /\ req.e.pct = Num(50)
  /\ req.e.progress = Num(995)
  /\ req.relayed.pct = Num(50)

\* C27  Single load in flight, single loaded model: a load request that
\* arrives while a model is recorded as loaded or while a loadModel call is
\* outstanding is answered 'busy' and starts no loadModel call; at most one
\* loadModel call is outstanding at any instant; and the model recorded as
\* loaded is one whose loadModel call reported ok.
SingleLoadInFlight ==
  /\ [](/\ Cardinality(S.loads) <= 1
        /\ S.loads # {} => S.loadInFlight
        /\ S.loadedModel \subseteq S.okLoads)
  /\ [][ (req'.op = "load" /\ (S.loadedModel # {} \/ S.loads # {})) =>
           /\ S'.out = <<Msg("result", req'.id, "busy")>>
           /\ S'.loads = S.loads
           /\ S'.calls = S.calls
           /\ S'.loadedModel = S.loadedModel ]_vars
  /\ [][ S'.loadedModel # S.loadedModel /\ S'.loadedModel # {} =>
           /\ req' = Ev("loaded", req'.id, "ok")
           /\ \E c \in S.loads : c.id = req'.id /\ S'.loadedModel = {c.model} ]_vars

SingleLoadInFlightWitness ==
  /\ req.op = "load"
  /\ S.out = <<Msg("result", req.id, "busy")>>
  /\ S.loads # {}
  /\ S.loadedModel = {}
  /\ S.okLoads # {}

\* C31  Worker client abort completes: every abort request the client sends
\* is eventually answered by a 'result', which removes its entry from the
\* pending map and resolves the promise of abort().  With a job active the
\* host answers only 'accepted', and nothing else is ever posted under the id
\* of the abort request.
AbortCompletes ==
  \A a \in 1..MaxClientAborts :
    ([kind |-> "abort", id |-> a] \in inl.pending)
      ~> ([kind |-> "abort", id |-> a] \notin inl.pending)

\* C32  Re-entrant submissions see a busy scheduler (InlineScheduler): a
\* submission made from a callback that the start of a job triggers starts
\* no executor call of its own and leaves the started job in the current
\* slot, alone with its executor call.  The 'running' listener runs before
\* currentJob is assigned, so the re-entrant submission takes the idle path.
ReentrantSeesBusy ==
  req.op = "reentrant" =>
    /\ inl.started[req.id + 1] = 0
    /\ inl.currentJob = req.id
    /\ inl.execs \subseteq {req.id}

\* C33  cleanup() preserves single-flight (InlineScheduler): no executor
\* call is started while the executor call of a job that cleanup() discarded
\* is outstanding, so at most one executor call is outstanding at any time.
\* cleanup() empties the current slot at once, and the next submission finds
\* the scheduler idle.
CleanupSingleFlight ==
  kind = "inline" => Cardinality(inl.execs) <= 1

\* C34  abort_and_queue always requests the abort: a generate with policy
\* 'abort_and_queue' that arrives while a job is current and not aborting
\* signals the token of the current job and arms the abort guard, whatever
\* happens to the newcomer in the pending slot.  With the slot occupied and
\* replaceQueued false the handler answers 'busy' and leaves before the abort.
AbortAndQueueAlwaysAborts ==
  [][ HostGenerates => \A r \in ReplaceInputs, d \in DebounceInputs :
        (/\ HostGenerateWith({"abort_and_queue"}, r, d)
         /\ host.currentJob # Null /\ ~host.aborting)
        => /\ host'.signaled[host.currentJob] = host.signaled[host.currentJob] + 1
           /\ host'.aborting
           /\ \E t \in host'.timers :
                /\ t.kind = "abort" /\ t.id = host'.abortTimer
                /\ t.due = now + ABORT_TIMEOUT_MS ]_vars

\* the debounce timer that the handle names is armed for the deadline of the
\* pending job
DebounceArmed(s) ==
  \E t \in s.timers :
    /\ t.kind = "debounce" /\ t.id = s.debounceTimer
    /\ {t.due} = s.pendingJob.debounceUntil

\* C35  A pending job is never stranded: whenever the pending slot is
\* occupied and no job is current, the debounce timer for the pending job's
\* deadline is armed; when that timer fires the pending job becomes current;
\* and whenever the running slot frees with a pending job present, the
\* pending job is started in the same step or stays in the slot with its
\* timer armed.  This holds also when a submission was started at once while
\* the pending job was waiting and the timer fired during that job.
PendingNeverStranded ==
  /\ []((S.pendingJob # NoPending /\ S.currentJob = Null) => DebounceArmed(S))
  /\ [][ (/\ req'.op = "debounceTimer"
          /\ S.currentJob = Null /\ S.pendingJob # NoPending)
         => /\ S'.currentJob = S.pendingJob.id
            /\ S'.pendingJob = NoPending
            /\ S'.execs = {S.pendingJob.id} ]_vars
  /\ [][ (/\ S.currentJob # Null /\ S'.currentJob # S.currentJob
          /\ S.pendingJob # NoPending)
         => \/ /\ S'.currentJob = S.pendingJob.id
               /\ S'.pendingJob = NoPending
               /\ S'.execs = {S.pendingJob.id}
            \/ /\ S'.currentJob = Null
               /\ S'.pendingJob = S.pendingJob
               /\ DebounceArmed(S') ]_vars

\* the third job was started at once while the second one waited out its
\* debounce, and the second job has been promoted when the third settled
PendingNeverStrandedWitness ==
  /\ req.op = "settle" /\ req.id = 3
  /\ S.currentJob = 2
  /\ S.execs = {2}
  /\ S.results[1] # <<>>
  /\ S.started[3] = 1
  /\ S.debounceTimer = Null
  /\ now = MaxNow

CleanupPostcondition ==
  /\ [][ req'.op = "cleanup" =>
           /\ inl'.currentJob = Null
           /\ inl'.pendingJob = NoPending
           /\ ~inl'.aborting
           /\ inl'.timers = {}
           /\ inl'.abortTimer = Null /\ inl'.debounceTimer = Null
           /\ inl'.state = "idle"
           /\ inl'.execs = inl.execs /\ inl'.started = inl.started
           /\ \A j \in Jobs :
                /\ inl'.results[j] =
                     IF j = inl.pendingJob.id THEN Append(inl.results[j], "cancelled")
                     ELSE inl.results[j]
                /\ inl'.signaled[j] =
                     IF j = inl.currentJob THEN inl.signaled[j] + 1 ELSE inl.signaled[j] ]_vars
  /\ [][ (kind = "inline" /\ req'.op = "settle" /\ inl.currentJob # req'.id) =>
           /\ inl.signaled[req'.id] >= 1
           /\ inl'.results[req'.id] = <<"cancelled">>
           /\ \A j \in Jobs \ {req'.id} : inl'.results[j] = inl.results[j]
           /\ inl'.execs = inl.execs \ {req'.id}
           /\ inl'.started = inl.started
           /\ inl'.signaled = inl.signaled
           /\ inl'.currentJob = inl.currentJob
           /\ inl'.pendingJob = inl.pendingJob
           /\ inl'.aborting = inl.aborting
           /\ inl'.timers = inl.timers
           /\ inl'.state = inl.state ]_vars

\* cleanup() was called with one job running and one pending; the executor
\* call of the first has now returned ok and its submitter got 'cancelled'
CleanupPostconditionWitness ==
  /\ kind = "inline"
  /\ req.op = "settle" /\ req.id = 1 /\ req.res = "ok"
  /\ inl.results[1] = <<"cancelled">>
  /\ inl.results[2] = <<"cancelled">>
  /\ inl.started[2] = 0
  /\ inl.state = "idle"
  /\ inl.currentJob = Null

\* C38  No idle gap before promotion: when the current job settles while the
\* pending slot is occupied the scheduler reports 'queued' and, when the
\* debounce wait is over (in the same step or when the debounce timer
\* fires), 'running'; when it settles with the pending slot empty it reports
\* 'idle'; and 'idle' is never the reported state while a job is pending,
\* nor reported by a step that finds or leaves a job pending (cleanup(),
\* which discards the pending job, apart).
NoIdleGap ==
  /\ [](S.pendingJob # NoPending => S.state # "idle")
  /\ [][ (req'.op = "settle" /\ S.currentJob = req'.id) =>
           ReportedStates(S'.out) =
             IF S.pendingJob = NoPending THEN <<Msg("state", Null, "idle")>>
             ELSE IF Promotable(S)
             THEN <<Msg("state", Null, "queued"), Msg("state", Null, "running")>>
             ELSE <<Msg("state", Null, "queued")>> ]_vars
  /\ [][ (req'.op = "debounceTimer" /\ S.currentJob = Null /\ S.pendingJob # NoPending) =>
           /\ ReportedStates(S'.out) = <<Msg("state", Null, "running")>>
           /\ S'.currentJob = S.pendingJob.id ]_vars
  /\ [][ (/\ req'.op # "cleanup"
          /\ \E i \in 1..Len(S'.out) : S'.out[i] = Msg("state", Null, "idle")) =>
           /\ S.pendingJob = NoPending
           /\ S'.pendingJob = NoPending ]_vars

\* the second job waited in the pending slot after the first had settled,
\* and the debounce timer has just started it
NoIdleGapWitness ==
  /\ req.op = "debounceTimer"
  /\ S.currentJob = 2
  /\ ReportedStates(S.out) = <<Msg("state", Null, "running")>>
  /\ S.results[1] # <<>>
  /\ S.execs = {2}

============================================================================
